---- MODULE Spec2Model ----
(***************************************************************************)
(* cmsg: edit the message of any commit.  The model follows src/cmsg.py:   *)
(* main() is a sequence of steps, one per external VCS command, and the    *)
(* rewrite session that `git rebase -i` runs calls back into the two       *)
(* drivers internal_sequence_editor and internal_message_editor.           *)
(*                                                                         *)
(* Text is modelled as a sequence of lines and a line as a sequence of     *)
(* whitespace-separated tokens (what line.strip().split() yields); a blank *)
(* line is the empty sequence.  Hashes are strings; the model's full       *)
(* hashes are shorter than seven characters, so the [:7] slices of the     *)
(* prints leave them as they are.                                          *)
(***************************************************************************)
EXTENDS Integers, Sequences, FiniteSets, TLC

\* Bound: the number of commits in the repository at invocation.
MaxCommits == 4

\* The longest step list handed to the step-list driver on its own.
MaxLines == 3

(***************************************************************************)
(* Values                                                                  *)
(***************************************************************************)

\* The object names the VCS hands out, in order of creation: <<full, short>>.
\* The first and the third share their abbreviation, so a short hash can be
\* ambiguous.
HashTable ==
  << <<"a1f0", "a1">>, <<"b2e1", "b2">>, <<"a1c2", "a1">>, <<"d4a3", "d4">>,
     <<"e5b4", "e5">>, <<"f6c5", "f6">>, <<"07d6", "07">>, <<"18e7", "18">>,
     <<"29f8", "29">>, <<"3a09", "3a">>, <<"4b1a", "4b">>, <<"5c2b", "5c">> >>

FullHashOf(n) == HashTable[n][1]

\* The abbreviation of a full hash.
Short(h) == HashTable[CHOOSE i \in 1..Len(HashTable) : HashTable[i][1] = h][2]

\* The subject of the n-th commit of the initial repository.
Subjects == <<"first", "second", "third", "fourth", "fifth", "sixth">>

\* args.message is None or a string (argparse, -m).
None == [some |-> FALSE, val |-> <<>>]
Some(m) == [some |-> TRUE, val |-> m]

\* os.environ.get of a variable that holds a hash: None when it is not set.
Unset == [some |-> FALSE, val |-> ""]

\* The literal messages tried: the empty string, one line, several lines with a
\* blank line between them, and such a message whose last line starts with '#'.
Messages ==
  { <<>>,
    << <<"new", "second">> >>,
    << <<"Line", "1">>, <<>>, <<"Line", "3">> >>,
    << <<"fix">>, <<>>, <<"#", "42">> >> }

\* The process environment handed to a command: the editors unset are "" (the
\* user's own editor is in charge), the two side channels unset are None.
NoEnv ==
  [GIT_SEQUENCE_EDITOR |-> "", CMSG_TARGET_HASH |-> Unset,
   GIT_EDITOR |-> "", CMSG_NEW_MESSAGE |-> None]

\* One external VCS command as main() issued it; rc is -1 while it runs.
Cmd(name, arg, msg, e, rc) ==
  [name |-> name, arg |-> arg, msg |-> msg, env |-> e, rc |-> rc]

(***************************************************************************)
(* What the program prints (the emoji that lead each line are left out;    *)
(* punctuation is a token of its own)                                      *)
(***************************************************************************)

MsgNotClean ==
  <<"Working", "directory", "not", "clean", ".", "Please", "commit", "or",
    "stash", "changes", "before", "continuing", ".">>

MsgClean == <<"Working", "directory", "is", "clean", ".", "Good", "to", "go", ".">>

MsgResolved(commit_id, full) == <<"Resolved", commit_id, "to", full>>

MsgCommandError(name, arg) == <<"Error", "running", "command", ":", "git", name, arg>>

MsgStderr == <<"Stderr", ":", "fatal">>

MsgExiting == <<"Exiting", "with", "failure", ".">>

MsgIsHead(h) == <<"Target", h, "is", "HEAD", ".">>

MsgNotHead(h) == <<"Target", h, "is", "not", "HEAD", ".">>

MsgRoot == <<"This", "is", "a", "root", "commit", "-", "no", "parent", "found", ".">>

MsgParent(p) == <<"Parent", "commit", "is", p>>

MsgProgress0 ==
  <<"Please", "commit", "or", "stash", "changes", "and", "try", "again", ".",
    "Progress", "0%", ".">>

MsgAmended(h) == <<"Successfully", "edited", "commit", h, ".", "Done", "100%", ".">>

MsgOnto(p) == <<"Preparing", "interactive", "rebase", "onto", "parent", p>>

MsgFromRoot == <<"Preparing", "interactive", "rebase", "from", "root", "commit">>

MsgScripted ==
  <<"Will", "set", "the", "new", "commit", "message", "non", "interactively", ".">>

MsgInteractive ==
  <<"No", "-m", "provided", ".", "Git", "will", "open", "your", "default",
    "editor", "to", "edit", "the", "commit", "message", ".">>

MsgRebased(h) ==
  <<"Successfully", "edited", "commit", h, ".", "Rebase", "finished", "100%", ".">>

MsgRebaseError ==
  <<"Error", "during", "rebase", ".", "Please", "resolve", "conflicts", "or",
    "run", "'git", "rebase", "--abort'", "and", "try", "again", ".">>

MsgMarked(short) ==
  <<"Marked", short, "for", "reword", "(", "target", "matched", ")", ".">>

MsgNotFound ==
  <<"Commit", "not", "found", "in", "todo", "list", ".", "Letting", "git",
    "handle", "the", "sequence", "file", ".">>

MsgWrote ==
  <<"Wrote", "new", "commit", "message", "into", "the", "temporary", "editor",
    "file", ".">>

MsgNoTargetEnv ==
  <<"Environment", "error", ":", "CMSG_TARGET_HASH", "not", "set", "in",
    "sequence", "editor", ".">>

MsgNoMessageEnv ==
  <<"Environment", "error", ":", "CMSG_NEW_MESSAGE", "not", "set", "in",
    "message", "editor", ".">>

\* The hooks main() installs: this program, re-invoked with an internal flag.
SelfSequenceEditor == "cmsg --internal-sequence-editor"

SelfMessageEditor == "cmsg --internal-message-editor"

(***************************************************************************)
(* State                                                                   *)
(***************************************************************************)

VARIABLES
  args,             \* [message, commit]: what argparse hands main()
  alt,              \* another spelling of args.commit, for a second invocation
  extFail,          \* whether the external tool's commit/replay step fails
  commits,          \* the object store: full hash -> [parent, content, msg]
  head,             \* the commit HEAD resolves to
  branches,         \* branch name -> full hash ("main" is checked out)
  tree,             \* `git status --porcelain`: the pending changes, as lines
  rebasing,         \* a rewrite session was left paused
  orig,             \* the repository at invocation
  pc,               \* where main(), or the session it started, stands
  target_full_hash, \* main(): the resolved target
  parent_hash,      \* main(): the parent of the target, "" for None
  env,              \* the environment main() built for the rewrite command
  todo,             \* the session's step list (the file the tool wrote)
  idx,              \* the step the replay stands at
  tip,              \* the commit the replay has built so far ("" before a root)
  buffer,           \* the message buffer (the file the editor is given)
  sessRc,           \* the exit status of the rewrite command
  cmds,             \* the external commands main() issued, in order
  stdout,           \* the lines printed
  exitCode,         \* the exit status of the process, -1 while it runs
  run,              \* 1, or 2 in the second invocation
  first,            \* what the first invocation did, for the second to compare
  other             \* where main() stood when another writer moved the tip or
                    \* dirtied the tree ("" when it did not)

vars ==
  <<args, alt, extFail, commits, head, branches, tree, rebasing, orig, pc,
    target_full_hash, parent_hash, env, todo, idx, tip, buffer, sessRc, cmds,
    stdout, exitCode, run, first, other>>

inputs == <<args, extFail, orig, run, first, other>>

repo == <<commits, head, branches, tree, rebasing>>

locals == <<target_full_hash, parent_hash, env>>

session == <<todo, idx, tip, buffer, sessRc>>

(***************************************************************************)
(* The external VCS                                                        *)
(***************************************************************************)

\* `git rev-parse <s>` against a store: the full hash, or "" when it exits
\* non-zero (unknown name, or an ambiguous abbreviation).
Resolve(store, hd, br, s) ==
  IF s = "HEAD" THEN hd
  ELSE IF s \in DOMAIN br THEN br[s]
  ELSE IF s \in DOMAIN store THEN s
  ELSE LET m == {h \in DOMAIN store : Short(h) = s}
       IN  IF Cardinality(m) = 1 THEN CHOOSE h \in m : TRUE ELSE ""

RevParse(s) == Resolve(commits, head, branches, s)

\* `git rev-parse <h>^`: the first parent, "" (non-zero exit) for a root.
RevParseParent(h) == IF h \in DOMAIN commits THEN commits[h].parent ELSE ""

\* The commits from the root to h, oldest first.
RECURSIVE Chain(_, _)
Chain(store, h) ==
  IF h = "" THEN <<>>
  ELSE Append(Chain(store, store[h].parent), h)

\* `git log` of h, oldest first: what each commit holds and says.
Log(store, h) ==
  LET c == Chain(store, h)
  IN  [i \in 1..Len(c) |-> [content |-> store[c[i]].content, msg |-> store[c[i]].msg]]

\* The name of the next object the tool creates.
NewHash(store) == FullHashOf(Cardinality(DOMAIN store) + 1)

IsBlank(line) == line = <<>>

\* A comment line of a message buffer: it starts with '#'.
IsCommentLine(line) == line # <<>> /\ line[1] = "#"

\* Leading and trailing blank lines dropped, runs of blank lines collapsed.
RECURSIVE Normalise(_)
Normalise(text) ==
  IF text = <<>> THEN <<>>
  ELSE IF IsBlank(text[1]) THEN Normalise(Tail(text))
  ELSE IF IsBlank(text[Len(text)]) THEN Normalise(SubSeq(text, 1, Len(text) - 1))
  ELSE IF \E i \in 1..(Len(text) - 1) : IsBlank(text[i]) /\ IsBlank(text[i + 1])
       THEN LET k == CHOOSE i \in 1..(Len(text) - 1) :
                       IsBlank(text[i]) /\ IsBlank(text[i + 1])
            IN  Normalise(SubSeq(text, 1, k) \o SubSeq(text, k + 2, Len(text)))
  ELSE text

\* The message the tool stores for a buffer: with an editor it drops the
\* comment lines, without one (-m) it keeps them.
Cleanup(text, edited) ==
  Normalise(IF edited THEN SelectSeq(text, LAMBDA l : ~IsCommentLine(l)) ELSE text)

\* What the tool puts under a message it hands to an editor.
CommitTemplate ==
  << <<>>, <<"#", "Please", "enter", "the", "commit", "message">>, <<"#">> >>

\* The user's own editor (the tests' sed): it marks the first line as edited.
UserEditor(text) ==
  IF text = <<>> THEN << <<"edited">> >>
  ELSE << <<"edited">> \o text[1] >> \o Tail(text)

\* The abbreviation the tool prints in a step list: the short form when no
\* other object shares it, the full hash otherwise.
TodoAbbrev(h) ==
  IF Cardinality({g \in DOMAIN commits : Short(g) = Short(h)}) = 1
  THEN Short(h) ELSE h

PickLine(h) == <<"pick", TodoAbbrev(h)>> \o commits[h].msg[1]

TodoHelp ==
  << <<>>, <<"#", "Rebase", "of", "the", "range">>, <<"#">>,
     <<"#", "Commands", ":">> >>

\* The status lines that are changes to tracked files: `git rebase` refuses
\* to start on them (untracked files, "??", do not stop it).
TrackedChanges(status) == SelectSeq(status, LAMBDA l : l # <<>> /\ l[1] # "??")

\* The commits of HEAD's history that `git rebase -i <upstream>` replays:
\* those not in upstream's history; with --root, all of them.
RebaseRange(upstream) ==
  LET hc == Chain(commits, head)
      uc == IF upstream = "--root" THEN <<>> ELSE Chain(commits, upstream)
  IN  SelectSeq(hc, LAMBDA h : \A i \in 1..Len(uc) : uc[i] # h)

\* The step list the tool writes for a range: a line per commit, `noop` for
\* an empty range, then its help text.
TodoList(range) ==
  (IF range = <<>> THEN << <<"noop">> >>
   ELSE [i \in 1..Len(range) |-> PickLine(range[i])]) \o TodoHelp

(***************************************************************************)
(* The session drivers (internal_sequence_editor, internal_message_editor) *)
(***************************************************************************)

\* (a variant: every occurrence is replaced)
ReplaceEvery(line, old, new) ==
  [i \in 1..Len(line) |-> IF line[i] = old THEN new ELSE line[i]]

\* line.replace(old, new, 1) on the tokens of a line.
ReplaceFirst(line, old, new) ==
  IF \E i \in 1..Len(line) : line[i] = old
  THEN LET k == CHOOSE i \in 1..Len(line) :
                  line[i] = old /\ \A j \in 1..(i - 1) : line[j] # old
       IN  [line EXCEPT ![k] = new]
  ELSE line

\* The loop over the lines of the step list: `left` are the lines still to
\* read.  parts[1] of a line with one token raises IndexError (crash).
RECURSIVE SequenceLoop(_, _, _, _, _)
SequenceLoop(target_hash, left, new_lines, found, out) ==
  IF left = <<>>
  THEN [crash |-> FALSE, new_lines |-> new_lines, found |-> found, out |-> out]
  ELSE LET line == left[1]
           parts == line
       IN  IF parts = <<>> \/ parts[1] = "#"
           THEN SequenceLoop(target_hash, Tail(left), Append(new_lines, line),
                             found, out)
           ELSE IF Len(parts) < 2
           THEN [crash |-> TRUE, new_lines |-> new_lines, found |-> found,
                 out |-> out]
           ELSE LET current_short_hash == parts[2]
                    current_full_hash == RevParse(current_short_hash)
                IN  IF current_full_hash = target_hash /\ parts[1] = "pick"
                    THEN SequenceLoop(target_hash, Tail(left),
                           Append(new_lines, ReplaceFirst(line, "pick", "reword")),
                           TRUE, Append(out, MsgMarked(current_short_hash)))
                    ELSE SequenceLoop(target_hash, Tail(left),
                           Append(new_lines, line), found, out)

\* internal_sequence_editor on the step list `lines` under environment e:
\* its exit status, the file afterwards and what it printed.
InternalSequenceEditor(e, lines) ==
  LET target_hash == e.CMSG_TARGET_HASH
  IN  IF ~target_hash.some \/ target_hash.val = ""
      THEN [rc |-> 1, lines |-> lines, out |-> <<MsgNoTargetEnv>>]
      ELSE LET r == SequenceLoop(target_hash.val, lines, <<>>, FALSE, <<>>)
           IN  IF r.crash
               THEN [rc |-> 1, lines |-> lines, out |-> r.out]
               ELSE [rc |-> 0, lines |-> r.new_lines,
                     out |-> IF r.found THEN r.out ELSE Append(r.out, MsgNotFound)]

\* open(msg_file, "w") and write: the file holds the text and nothing else.
WriteFile(old, text) == text

\* internal_message_editor on the message buffer under environment e.
InternalMessageEditor(e, buf) ==
  LET new_message == e.CMSG_NEW_MESSAGE
  IN  IF ~new_message.some
      THEN [rc |-> 1, buffer |-> buf, out |-> <<MsgNoMessageEnv>>]
      ELSE [rc |-> 0, buffer |-> WriteFile(buf, new_message.val),
            out |-> <<MsgWrote>>]

(***************************************************************************)
(* main()                                                                  *)
(***************************************************************************)

\* (a variant: the output of the status query is not looked at)
IsCleanAlways(out) == TRUE

\* clean = not result.stdout.strip()
IsClean(out) == \A i \in 1..Len(out) : IsBlank(out[i])

\* target_commit = args.commit if args.commit else "HEAD"
TargetCommit(commit) == IF commit # "" THEN commit ELSE "HEAD"

\* (a variant: what the user typed is compared, not the resolved hash)
IsHeadMatchTyped(commit_hash, head_hash) == TargetCommit(args.commit) = head_hash

\* is_head: match = commit_hash == head_hash
IsHeadMatch(commit_hash, head_hash) == commit_hash = head_hash

\* (a variant: the amend rewrites the commit main() resolved)
AmendedCommitResolved(target, hd) == target

\* `git commit --amend` names no commit: it rewrites the one HEAD is at when
\* it runs.
AmendedCommit(target, hd) == hd

\* (a variant: -m is not passed on)
AmendMessageDropped(new_message) == None

\* The message the amend command carries: -m new_message, or none.
AmendMessage(new_message) == new_message

\* (a variant: --root is never used)
RebaseBoundaryParentOnly(parent) == parent

\* rebase_cmd's last argument: the parent, or --root.
RebaseBoundary(parent) == IF parent # "" THEN parent ELSE "--root"

\* (a variant: the side channel carries what the user typed)
SessionEnvTyped(new_message, target) ==
  [GIT_SEQUENCE_EDITOR |-> SelfSequenceEditor,
   CMSG_TARGET_HASH |-> Some(TargetCommit(args.commit)),
   GIT_EDITOR |-> IF new_message.some THEN SelfMessageEditor ELSE "",
   CMSG_NEW_MESSAGE |-> IF new_message.some THEN new_message ELSE None]

\* The environment of the rewrite command.
SessionEnv(new_message, target) ==
  [GIT_SEQUENCE_EDITOR |-> SelfSequenceEditor,
   CMSG_TARGET_HASH |-> Some(target),
   GIT_EDITOR |-> IF new_message.some THEN SelfMessageEditor ELSE "",
   CMSG_NEW_MESSAGE |-> IF new_message.some THEN new_message ELSE None]

\* (a variant: the failure of the rewrite command is swallowed)
RebaseExitCodeZero(rc) == 0

\* The exit status main() ends with after the rewrite command returned rc.
RebaseExitCode(rc) == IF rc = 0 THEN 0 ELSE 1

\* (a variant: a failed rewrite is followed by an abort)
RebaseReturnedAborting(cs, rc) ==
  IF rc = 0 THEN [cs EXCEPT ![Len(cs)].rc = rc]
  ELSE Append([cs EXCEPT ![Len(cs)].rc = rc],
              Cmd("rebase --abort", "", None, NoEnv, 0))

\* subprocess.run(rebase_cmd) is over: the command has its exit status, and
\* neither branch of the try issues another command.
RebaseReturned(cs, rc) == [cs EXCEPT ![Len(cs)].rc = rc]

\* (a variant: the failure is not reported)
RunCommandFailureSilent(name, arg) == <<>>

\* What run_command prints before sys.exit(1) when a checked command fails.
RunCommandFailure(name, arg) == <<MsgCommandError(name, arg), MsgStderr, MsgExiting>>

\* The working trees tried: clean, a tracked file changed, an untracked file.
Trees == { <<>>, << <<"M", "file1.txt">> >>, << <<"??", "notes.txt">> >> }

\* A repository of n commits: commit i has parent par[i] (0: none), holds
\* file i and says Subjects[i].
InitialStore(n, par) ==
  [h \in {FullHashOf(i) : i \in 1..n} |->
     LET i == CHOOSE j \in 1..n : FullHashOf(j) = h
     IN  [parent |-> IF par[i] = 0 THEN "" ELSE FullHashOf(par[i]),
          content |-> i,
          msg |-> << <<Subjects[i]>> >>]]

\* The references a user may type: nothing, symbolic names, full and short
\* hashes, and a name that does not exist.
Refs(store) ==
  {"", "HEAD", "main", "side", "bogus"} \cup DOMAIN store
    \cup {Short(h) : h \in DOMAIN store}

NoOther == [tip |-> "", tree |-> ""]

NoOutcome ==
  [typed |-> "",
   did |-> [cmds |-> <<>>, exitCode |-> -1, commits |-> <<>>, head |-> "",
            branches |-> <<>>, log |-> <<>>, tree |-> <<>>, rebasing |-> FALSE]]

\* The state at invocation: a repository with one root whose history is a
\* tree, HEAD on branch main at any commit, branch side at the newest one.
InitRepo ==
  \E n \in 1..MaxCommits :
    \E par \in [1..n -> 0..(n - 1)] :
      \E hd \in 1..n :
        /\ par[1] = 0
        /\ \A i \in 2..n : par[i] >= 1 /\ par[i] < i
        /\ commits = InitialStore(n, par)
        /\ head = FullHashOf(hd)
        /\ branches = [main |-> FullHashOf(hd), side |-> FullHashOf(n)]

InitRun ==
  /\ pc = "start"
  /\ target_full_hash = ""
  /\ parent_hash = ""
  /\ env = NoEnv
  /\ todo = <<>>
  /\ idx = 0
  /\ tip = ""
  /\ buffer = <<>>
  /\ sessRc = -1
  /\ cmds = <<>>
  /\ stdout = <<>>
  /\ exitCode = -1

InitCommon ==
  /\ InitRepo
  /\ tree \in Trees
  /\ rebasing = FALSE
  /\ orig = [commits |-> commits, head |-> head, branches |-> branches,
             tree |-> tree]
  /\ args \in [message : {None} \cup {Some(m) : m \in Messages},
               commit : Refs(commits)]
  /\ extFail \in BOOLEAN
  /\ InitRun
  /\ run = 1
  /\ first = NoOutcome
  /\ other = NoOther

Init == InitCommon /\ alt = args.commit

\* 1. Check clean working directory (is_working_directory_clean, and the exit)
CheckClean ==
  /\ pc = "start"
  /\ cmds' = Append(cmds, Cmd("status", "--porcelain", None, NoEnv, 0))
  /\ IF IsClean(tree)
     THEN /\ stdout' = Append(stdout, MsgClean)
          /\ pc' = "resolve"
          /\ exitCode' = exitCode
     ELSE /\ stdout' = stdout \o <<MsgNotClean, MsgProgress0>>
          /\ pc' = "done"
          /\ exitCode' = 1
  /\ UNCHANGED <<inputs, alt, repo, locals, session>>

\* 2. Resolve target commit (get_full_hash)
ResolveTarget ==
  /\ pc = "resolve"
  /\ LET target_commit == TargetCommit(args.commit)
         full == RevParse(target_commit)
     IN  IF full # ""
         THEN /\ cmds' = Append(cmds, Cmd("rev-parse", target_commit, None, NoEnv, 0))
              /\ stdout' = Append(stdout, MsgResolved(target_commit, full))
              /\ target_full_hash' = full
              /\ pc' = "is_head"
              /\ exitCode' = exitCode
         ELSE /\ cmds' = Append(cmds, Cmd("rev-parse", target_commit, None, NoEnv, 128))
              /\ stdout' = stdout \o RunCommandFailure("rev-parse", target_commit)
              /\ target_full_hash' = target_full_hash
              /\ pc' = "done"
              /\ exitCode' = 1
  /\ UNCHANGED <<inputs, alt, repo, parent_hash, env, session>>

\* 4. Check if target is HEAD (is_head)
IsHead ==
  /\ pc = "is_head"
  /\ LET head_hash == RevParse("HEAD")
         match == IsHeadMatch(target_full_hash, head_hash)
     IN  /\ cmds' = Append(cmds, Cmd("rev-parse", "HEAD", None, NoEnv, 0))
         /\ stdout' = stdout \o
              <<MsgResolved("HEAD", head_hash),
                IF match THEN MsgIsHead(target_full_hash)
                ELSE MsgNotHead(target_full_hash)>>
         /\ pc' = IF match THEN "amend" ELSE "parent"
  /\ UNCHANGED <<inputs, alt, repo, locals, session, exitCode>>

\* The direct amend: `git commit --amend [-m M]` replaces the commit HEAD is
\* at; it exits non-zero on an empty message.  Without -m the user's editor
\* is given the old message.
Amend ==
  /\ pc = "amend"
  /\ LET new_message == args.message
         carried == AmendMessage(new_message)
         old == commits[AmendedCommit(target_full_hash, head)]
         text == IF carried.some THEN Cleanup(carried.val, FALSE)
                 ELSE Cleanup(UserEditor(old.msg \o CommitTemplate), TRUE)
         rc == IF extFail \/ text = <<>> THEN 1 ELSE 0
         h == NewHash(commits)
     IN  /\ cmds' = Append(cmds, Cmd("commit --amend", "", carried, NoEnv, rc))
         /\ IF rc = 0
            THEN /\ commits' = commits @@ (h :> [old EXCEPT !.msg = text])
                 /\ head' = h
                 /\ branches' = [branches EXCEPT !.main = h]
                 /\ stdout' = Append(stdout, MsgAmended(target_full_hash))
                 /\ exitCode' = 0
            ELSE /\ UNCHANGED <<commits, head, branches>>
                 /\ stdout' = IF new_message.some
                               THEN stdout \o RunCommandFailure("commit", "--amend")
                               ELSE stdout
                 /\ exitCode' = 1
  /\ pc' = "done"
  /\ UNCHANGED <<inputs, alt, tree, rebasing, locals, session>>

\* 5. Target is not HEAD: get_parent_hash
GetParent ==
  /\ pc = "parent"
  /\ LET parent == RevParseParent(target_full_hash)
     IN  /\ cmds' = Append(cmds, Cmd("rev-parse", "^", None, NoEnv,
                                     IF parent = "" THEN 128 ELSE 0))
         /\ stdout' = Append(stdout, IF parent = "" THEN MsgRoot ELSE MsgParent(parent))
         /\ parent_hash' = parent
  /\ pc' = "rebase"
  /\ UNCHANGED <<inputs, alt, repo, target_full_hash, env, session, exitCode>>

\* main() builds the command and its environment and starts the rewrite; the
\* tool writes the step list for the range and calls the step-list hook.
RebaseStart ==
  /\ pc = "rebase"
  /\ LET boundary == RebaseBoundary(parent_hash)
         e == SessionEnv(args.message, target_full_hash)
         valid == /\ boundary = "--root" \/ RevParse(boundary) # ""
                  /\ TrackedChanges(tree) = <<>>
     IN  /\ cmds' = Append(cmds, Cmd("rebase -i", boundary, None, e, -1))
         /\ stdout' = stdout \o
              <<IF parent_hash # "" THEN MsgOnto(parent_hash) ELSE MsgFromRoot,
                IF args.message.some THEN MsgScripted ELSE MsgInteractive>>
         /\ env' = e
         /\ IF valid
            THEN /\ todo' = TodoList(RebaseRange(boundary))
                 /\ tip' = IF boundary = "--root" THEN "" ELSE RevParse(boundary)
                 /\ idx' = 1
                 /\ sessRc' = sessRc
                 /\ pc' = "sequence_editor"
            ELSE /\ sessRc' = 128
                 /\ pc' = "rebase_exit"
                 /\ UNCHANGED <<todo, tip, idx>>
  /\ UNCHANGED <<inputs, alt, repo, target_full_hash, parent_hash, buffer, exitCode>>

\* The tool runs GIT_SEQUENCE_EDITOR on the step list; a non-zero exit of the
\* hook ends the session before anything is replayed.
SequenceEditor ==
  /\ pc = "sequence_editor"
  /\ LET r == IF env.GIT_SEQUENCE_EDITOR = SelfSequenceEditor
              THEN InternalSequenceEditor(env, todo)
              ELSE [rc |-> 0, lines |-> todo, out |-> <<>>]
     IN  /\ stdout' = stdout \o r.out
         /\ todo' = r.lines
         /\ IF r.rc = 0
            THEN /\ pc' = "replay"
                 /\ rebasing' = TRUE
                 /\ sessRc' = sessRc
            ELSE /\ pc' = "rebase_exit"
                 /\ rebasing' = rebasing
                 /\ sessRc' = 1
  /\ UNCHANGED <<inputs, alt, commits, head, branches, tree, locals, idx, tip,
                 buffer, cmds, exitCode>>

\* The replay of one step: pick and reword put the commit on the new
\* history (as it is, when its parent is already the tip); reword then opens
\* the editor on its message.  A failing step leaves the session paused.
ReplayStep ==
  /\ pc = "replay"
  /\ idx <= Len(todo)
  /\ LET line == todo[idx]
     IN  IF line = <<>> \/ line[1] \notin {"pick", "reword"}
         THEN /\ idx' = idx + 1
              /\ UNCHANGED <<commits, head, tip, buffer, sessRc, pc>>
         ELSE IF extFail
         THEN /\ sessRc' = 1
              /\ pc' = "rebase_exit"
              /\ head' = IF tip # "" THEN tip ELSE head
              /\ UNCHANGED <<commits, tip, buffer, idx>>
         ELSE LET c == RevParse(line[2])
                  h == IF commits[c].parent = tip THEN c ELSE NewHash(commits)
              IN  /\ commits' = IF h = c THEN commits
                                ELSE commits @@ (h :> [commits[c] EXCEPT !.parent = tip])
                  /\ tip' = h
                  /\ head' = h
                  /\ sessRc' = sessRc
                  /\ IF line[1] = "reword"
                     THEN /\ buffer' = commits[c].msg \o CommitTemplate
                          /\ pc' = IF env.GIT_EDITOR = SelfMessageEditor
                                    THEN "message_editor" ELSE "user_editor"
                          /\ idx' = idx
                     ELSE /\ idx' = idx + 1
                          /\ UNCHANGED <<buffer, pc>>
  /\ UNCHANGED <<inputs, alt, branches, tree, rebasing, locals, todo, cmds,
                 stdout, exitCode>>

\* The tool runs GIT_EDITOR, here the message hook, on the message buffer.
MessageEditor ==
  /\ pc = "message_editor"
  /\ LET r == InternalMessageEditor(env, buffer)
     IN  /\ stdout' = stdout \o r.out
         /\ buffer' = r.buffer
         /\ IF r.rc = 0
            THEN pc' = "reword_commit" /\ sessRc' = sessRc
            ELSE pc' = "rebase_exit" /\ sessRc' = 1
  /\ UNCHANGED <<inputs, alt, repo, locals, todo, idx, tip, cmds, exitCode>>

\* No message hook: the user's own editor edits the buffer.
UserEdits ==
  /\ pc = "user_editor"
  /\ buffer' = UserEditor(buffer)
  /\ pc' = "reword_commit"
  /\ UNCHANGED <<inputs, alt, repo, locals, todo, idx, tip, sessRc, cmds,
                 stdout, exitCode>>

\* The tool commits the reworded step with the buffer as its message; an
\* empty message stops the session.
RewordCommit ==
  /\ pc = "reword_commit"
  /\ LET text == Cleanup(buffer, TRUE)
         h == NewHash(commits)
     IN  IF text = <<>>
         THEN /\ sessRc' = 1
              /\ pc' = "rebase_exit"
              /\ UNCHANGED <<commits, head, tip, idx>>
         ELSE /\ commits' = commits @@ (h :> [commits[tip] EXCEPT !.msg = text])
              /\ tip' = h
              /\ head' = h
              /\ idx' = idx + 1
              /\ pc' = "replay"
              /\ sessRc' = sessRc
  /\ UNCHANGED <<inputs, alt, branches, tree, rebasing, locals, todo, buffer,
                 cmds, stdout, exitCode>>

\* Every step replayed: the branch moves to the new history.
RebaseFinish ==
  /\ pc = "replay"
  /\ idx > Len(todo)
  /\ branches' = IF tip # "" THEN [branches EXCEPT !.main = tip] ELSE branches
  /\ head' = IF tip # "" THEN tip ELSE head
  /\ rebasing' = FALSE
  /\ sessRc' = 0
  /\ pc' = "rebase_exit"
  /\ UNCHANGED <<inputs, alt, commits, tree, locals, todo, idx, tip, buffer,
                 cmds, stdout, exitCode>>

\* subprocess.run(rebase_cmd, env=env, check=True) returned or raised.
RebaseExit ==
  /\ pc = "rebase_exit"
  /\ cmds' = RebaseReturned(cmds, sessRc)
  /\ exitCode' = RebaseExitCode(sessRc)
  /\ stdout' = Append(stdout, IF sessRc = 0 THEN MsgRebased(target_full_hash)
                               ELSE MsgRebaseError)
  /\ pc' = "done"
  /\ UNCHANGED <<inputs, alt, repo, locals, session>>

Next ==
  \/ CheckClean
  \/ ResolveTarget
  \/ IsHead
  \/ Amend
  \/ GetParent
  \/ RebaseStart
  \/ SequenceEditor
  \/ ReplayStep
  \/ MessageEditor
  \/ UserEdits
  \/ RewordCommit
  \/ RebaseFinish
  \/ RebaseExit

Spec == Init /\ [][Next]_vars

(***************************************************************************)
(* A second invocation on the same repository, with another spelling of    *)
(* the same commit: what two runs do is compared in one behaviour.         *)
(***************************************************************************)

\* The commands with the text the user typed (the argument of the first
\* resolution) masked: it is what differs by construction.
MaskTyped(cs) == IF Len(cs) >= 2 THEN [cs EXCEPT ![2].arg = "<ref>"] ELSE cs

Outcome ==
  [cmds |-> MaskTyped(cmds), exitCode |-> exitCode,
   commits |-> commits, head |-> head, branches |-> branches,
   log |-> Log(commits, head), tree |-> tree, rebasing |-> rebasing]

\* The repository is put back as it was at invocation and main() is run
\* again with the other spelling.
Rerun ==
  /\ pc = "done"
  /\ run = 1
  /\ first' = [typed |-> args.commit, did |-> Outcome]
  /\ run' = 2
  /\ args' = [args EXCEPT !.commit = alt]
  /\ commits' = orig.commits
  /\ head' = orig.head
  /\ branches' = orig.branches
  /\ tree' = orig.tree
  /\ rebasing' = FALSE
  /\ pc' = "start"
  /\ target_full_hash' = ""
  /\ parent_hash' = ""
  /\ env' = NoEnv
  /\ todo' = <<>>
  /\ idx' = 0
  /\ tip' = ""
  /\ buffer' = <<>>
  /\ sessRc' = -1
  /\ cmds' = <<>>
  /\ stdout' = <<>>
  /\ exitCode' = -1
  /\ UNCHANGED <<alt, extFail, orig, other>>

\* Both spellings resolve, and to the same commit.
InitPair ==
  /\ InitCommon
  /\ alt \in Refs(commits)
  /\ RevParse(TargetCommit(args.commit)) # ""
  /\ RevParse(TargetCommit(alt)) = RevParse(TargetCommit(args.commit))

NextPair == Next \/ Rerun

SpecPair == InitPair /\ [][NextPair]_vars

(***************************************************************************)
(* Another writer on the same working tree (a second invocation, or any    *)
(* other command), acting once between the steps of main(): nothing in     *)
(* main() takes a lock.                                                    *)
(***************************************************************************)

\* What the other writer's commit holds.
OtherContent == 99

\* The steps of main() after the clean check and before its mutating command.
BetweenChecks == {"resolve", "is_head", "amend", "parent", "rebase"}

\* The other writer commits on top of the tip.
OtherMovesTip ==
  /\ pc \in BetweenChecks
  /\ other = NoOther
  /\ LET h == NewHash(commits)
     IN  /\ commits' = commits @@
               (h :> [parent |-> head, content |-> OtherContent,
                      msg |-> << <<"other">> >>])
         /\ head' = h
         /\ branches' = [branches EXCEPT !.main = h]
  /\ other' = [other EXCEPT !.tip = pc]
  /\ UNCHANGED <<args, alt, extFail, orig, run, first, tree, rebasing, pc,
                 locals, session, cmds, stdout, exitCode>>

\* The other writer changes a tracked file.
OtherDirtiesTree ==
  /\ pc \in BetweenChecks
  /\ other = NoOther
  /\ tree' = Append(tree, <<"M", "file1.txt">>)
  /\ other' = [other EXCEPT !.tree = pc]
  /\ UNCHANGED <<args, alt, extFail, orig, run, first, commits, head, branches,
                 rebasing, pc, locals, session, cmds, stdout, exitCode>>

\* The invocation starts on a clean tree, and the tool itself does not fail.
InitConc == Init /\ tree = <<>> /\ ~extFail

NextConc == Next \/ OtherMovesTip \/ OtherDirtiesTree

SpecConc == InitConc /\ [][NextConc]_vars

(***************************************************************************)
(* The session drivers on their own: the process the external tool starts  *)
(* with --internal-sequence-editor or --internal-message-editor, on any    *)
(* step list, buffer and environment.                                      *)
(***************************************************************************)

\* A repository of three commits in a line, HEAD at the last; the first and
\* the third share their short hash, which therefore resolves to nothing.
DriverStore == InitialStore(3, <<0, 1, 2>>)

\* The lines a step list is made of: action lines naming a commit by short
\* or full hash, with other verbs, with a subject that says "pick", with a
\* hash that is unknown or ambiguous, a comment, a blank line, and the
\* single-token lines the tool writes (noop, break).
StepLines ==
  { <<"pick", "b2", "second">>,
    <<"pick", "b2e1", "pick", "me">>,
    <<"edit", "b2", "second">>,
    <<"pick", "a1f0", "first">>,
    <<"pick", "a1", "first">>,
    <<"pick", "d4", "fourth">>,
    <<"#", "pick", "b2", "second">>,
    <<>>,
    <<"noop">> }

StepLists == UNION {[1..n -> StepLines] : n \in 0..MaxLines}

\* CMSG_TARGET_HASH as the step-list driver may find it: not set, set to
\* the empty string, or set to the full hash of a commit.
TargetChannels == {Unset, Some(""), Some("b2e1"), Some("a1c2")}

\* CMSG_NEW_MESSAGE as the message driver may find it: not set, or a message
\* (the empty one among them).
MessageChannels == {None} \cup {Some(m) : m \in Messages}

\* The buffers the tool hands to the message driver.
Buffers == {<<>>} \cup {<< <<s>> >> \o CommitTemplate : s \in {"second", "third"}}

InitDriver ==
  /\ commits = DriverStore
  /\ head = FullHashOf(3)
  /\ branches = [main |-> FullHashOf(3), side |-> FullHashOf(3)]
  /\ tree = <<>>
  /\ rebasing = TRUE
  /\ args = [message |-> None, commit |-> ""]
  /\ alt = ""
  /\ extFail = FALSE
  /\ pc = "start"
  /\ target_full_hash = ""
  /\ parent_hash = ""
  /\ idx = 0
  /\ tip = ""
  /\ sessRc = -1
  /\ cmds = <<>>
  /\ stdout = <<>>
  /\ exitCode = -1
  /\ run = 1
  /\ first = NoOutcome
  /\ other = NoOther
  /\ \E mode \in {"hook_sequence", "hook_message"} :
       \E t \in TargetChannels, m \in MessageChannels :
         \E lines \in StepLists, buf \in Buffers :
           /\ mode = "hook_sequence" => m = None /\ buf = <<>>
           /\ mode = "hook_message" => t = Unset /\ lines = <<>>
           /\ todo = lines
           /\ buffer = buf
           /\ env = [NoEnv EXCEPT !.CMSG_TARGET_HASH = t, !.CMSG_NEW_MESSAGE = m]
           /\ orig = [commits |-> commits, head |-> head, branches |-> branches,
                      tree |-> tree, mode |-> mode, todo |-> lines,
                      buffer |-> buf]

\* The tool starts the process on the step list: main() hands over to
\* internal_sequence_editor and returns; an uncaught exception or
\* sys.exit(1) ends the process with status 1.
RunSequenceEditor ==
  /\ pc = "start"
  /\ orig.mode = "hook_sequence"
  /\ LET r == InternalSequenceEditor(env, todo)
     IN  /\ todo' = r.lines
         /\ stdout' = stdout \o r.out
         /\ exitCode' = r.rc
  /\ pc' = "done"
  /\ UNCHANGED <<inputs, alt, repo, locals, idx, tip, buffer, sessRc, cmds>>

\* The tool starts the process on the message buffer.
RunMessageEditor ==
  /\ pc = "start"
  /\ orig.mode = "hook_message"
  /\ LET r == InternalMessageEditor(env, buffer)
     IN  /\ buffer' = r.buffer
         /\ stdout' = stdout \o r.out
         /\ exitCode' = r.rc
  /\ pc' = "done"
  /\ UNCHANGED <<inputs, alt, repo, locals, todo, idx, tip, sessRc, cmds>>

NextDriver == RunSequenceEditor \/ RunMessageEditor

SpecDriver == InitDriver /\ [][NextDriver]_vars

(***************************************************************************)
(* Vocabulary of the properties                                            *)
(***************************************************************************)

Done == pc = "done"

WasClean == orig.tree = <<>>

\* The commit the reference named at invocation, "" when it named none.
Target == Resolve(orig.commits, orig.head, orig.branches, TargetCommit(args.commit))

OrigChain == Chain(orig.commits, orig.head)

OrigLog == Log(orig.commits, orig.head)

NowLog == Log(commits, head)

\* The place of the target in the history of the tip at invocation, 0 when
\* it is not in it.
TargetPlace ==
  IF \E k \in 1..Len(OrigChain) : OrigChain[k] = Target
  THEN CHOOSE k \in 1..Len(OrigChain) : OrigChain[k] = Target
  ELSE 0

\* The history is the one at invocation with the message at place k replaced
\* by m: same commits, same order, same contents, same other messages.
OnlyMessageAt(k, m) ==
  /\ k \in 1..Len(OrigLog)
  /\ NowLog = [OrigLog EXCEPT ![k].msg = m]

\* No object that existed at invocation was altered, and branch side stays.
ObjectsKept ==
  /\ \A h \in DOMAIN orig.commits : h \in DOMAIN commits /\ commits[h] = orig.commits[h]
  /\ branches.side = orig.branches.side

RepoUntouched ==
  /\ commits = orig.commits
  /\ head = orig.head
  /\ branches = orig.branches
  /\ tree = orig.tree
  /\ rebasing = FALSE

Issued(name) == {i \in 1..Len(cmds) : cmds[i].name = name}

Mutating == Issued("commit --amend") \cup Issued("rebase -i")

\* The text occurs in what was printed: as consecutive tokens of one line.
Printed(phrase) ==
  \E i \in 1..Len(stdout) :
    \E o \in 1..Len(stdout[i]) :
      /\ o + Len(phrase) - 1 <= Len(stdout[i])
      /\ SubSeq(stdout[i], o, o + Len(phrase) - 1) = phrase

SuccessReported == Printed(<<"Successfully", "edited", "commit">>)

\* What the user's editor leaves of a commit's message.
EditedByUser(m) == Cleanup(UserEditor(m \o CommitTemplate), TRUE)

HasBlankLine(m) == \E i \in 1..Len(m) : m[i] = <<>>

\* The message the rewrite leaves for a target whose message was m.
Reworded(m) ==
  IF args.message.some THEN Cleanup(args.message.val, TRUE) ELSE EditedByUser(m)

(***************************************************************************)
(* Properties                                                              *)
(***************************************************************************)

\* C1: on a clean tree, for a reference that resolves to a commit other than
\* the tip, a successful run with literal message M leaves the history of the
\* tip as it was (same commits, order, contents and number) except that the
\* target's message is M.
C1_RewriteSetsOnlyTargetMessage ==
  (Done /\ exitCode = 0 /\ WasClean /\ args.message.some
     /\ Target # "" /\ Target # orig.head)
    => OnlyMessageAt(TargetPlace, args.message.val)

\* C2: on a clean tree, when the reference (or the default) resolves to the
\* tip, a run with literal message M issues one direct amend carrying M and no
\* rewrite session; when the amend exits 0 the tip's message is M and no
\* other commit is changed, and when it does not the repository is as it was.
C2_TipAmendCarriesMessage ==
  (Done /\ WasClean /\ args.message.some /\ Target # "" /\ Target = orig.head)
    => /\ Issued("rebase -i") = {}
       /\ Issued("commit --amend") = {Len(cmds)}
       /\ cmds[Len(cmds)].msg = args.message
       /\ (cmds[Len(cmds)].rc = 0
             => /\ OnlyMessageAt(Len(OrigLog), args.message.val)
                /\ ObjectsKept
                /\ exitCode = 0)
       /\ (cmds[Len(cmds)].rc # 0 => RepoUntouched)

C2_Witness ==
  /\ Done /\ exitCode = 0 /\ WasClean /\ args.message.some
  /\ args.commit = "" /\ Target = orig.head /\ Len(OrigLog) >= 2
  /\ NowLog[Len(NowLog)].msg = args.message.val
  /\ HasBlankLine(args.message.val)

\* C3: with a dirty tree the clean check is the only command issued, whatever
\* the arguments: no resolution, no amend, no rewrite; the repository and the
\* tree stay as they were and the process exits non-zero.
C3_DirtyTreeStopsFirst ==
  ~WasClean
    => /\ \A i \in 1..Len(cmds) : i = 1 /\ cmds[i].name = "status"
       /\ RepoUntouched
       /\ pc \in {"start", "done"}
       /\ (Done => exitCode > 0 /\ ~SuccessReported)

C3_Witness ==
  /\ Done /\ exitCode = 1 /\ ~WasClean /\ tree = orig.tree
  /\ args.message.some /\ args.commit # "" /\ Target # ""
  /\ Len(cmds) = 1

\* C4: on a dirty tree the standard output contains the text
\* "Working directory is not clean".
C4_DirtyOutputSaysIsNotClean ==
  (Done /\ ~WasClean)
    => Printed(<<"Working", "directory", "is", "not", "clean">>)

\* C5: a root target that is not the tip is rewritten from the repository
\* root (the parent probe failed, the boundary is --root, no parent hash);
\* the rewrite succeeds unless the external tool fails, and then only the
\* root's message is changed.  A root that is the tip is amended directly,
\* with no parent probe.
C5_RootTarget ==
  (Done /\ WasClean /\ Target # "" /\ orig.commits[Target].parent = "")
    => IF Target # orig.head
       THEN /\ Issued("commit --amend") = {}
            /\ Issued("rebase -i") = {Len(cmds)}
            /\ cmds[Len(cmds)].arg = "--root"
            /\ cmds[Len(cmds) - 1].arg = "^" /\ cmds[Len(cmds) - 1].rc # 0
            /\ (cmds[Len(cmds)].rc = 0
                  => /\ exitCode = 0
                     /\ OnlyMessageAt(1, Reworded(OrigLog[1].msg))
                     /\ NowLog[1].msg # OrigLog[1].msg)
            /\ (~extFail /\ Reworded(OrigLog[1].msg) # <<>> => exitCode = 0)
       ELSE /\ Issued("rebase -i") = {}
            /\ Issued("commit --amend") = {Len(cmds)}
            /\ \A i \in 1..Len(cmds) : cmds[i].arg # "^"

C5_Witness ==
  /\ Done /\ exitCode = 0 /\ WasClean /\ Target # "" /\ Target # orig.head
  /\ orig.commits[Target].parent = ""
  /\ Len(OrigLog) = MaxCommits
  /\ cmds[Len(cmds)].arg = "--root"
  /\ NowLog[1].msg # OrigLog[1].msg

\* C6: two invocations that name the same commit differently (short hash,
\* full hash, symbolic name, or nothing) issue the same commands with the
\* same arguments and environment, and end with the same exit status and the
\* same repository.
C6_SameCommitSameRun ==
  (run = 2 /\ Done) => Outcome = first.did

C6_Witness ==
  /\ run = 2 /\ Done /\ exitCode = 0
  /\ first.typed = Target /\ args.commit = Short(Target)
  /\ Issued("rebase -i") # {}
  /\ NowLog # OrigLog

\* C7: a literal message M with a blank line in it round-trips: the amend
\* carries M, the message writer leaves the buffer equal to M, and after a
\* successful run the target's message is M, for the tip and for a target
\* that is not the tip.
C7_MultilineRoundTrip ==
  (WasClean /\ Target # "" /\ args.message.some /\ HasBlankLine(args.message.val))
    => /\ \A i \in Issued("commit --amend") : cmds[i].msg = args.message
       /\ (pc = "reword_commit" => buffer = args.message.val)
       /\ (Done /\ exitCode = 0 => OnlyMessageAt(TargetPlace, args.message.val))

\* C8: every rewrite session gets the step-list hook and the target hash;
\* it gets the message hook and the message if and only if a literal message
\* was given.  Without a message, a successful run leaves the target with
\* the message the user's editor made of it, and the other commits as they
\* were, on the amend path and on the rewrite path.
C8_HooksAndUserEditor ==
  /\ \A i \in Issued("rebase -i") :
       /\ cmds[i].env.GIT_SEQUENCE_EDITOR = SelfSequenceEditor
       /\ cmds[i].env.CMSG_TARGET_HASH = Some(Target)
       /\ (cmds[i].env.GIT_EDITOR = SelfMessageEditor) <=> args.message.some
       /\ cmds[i].env.CMSG_NEW_MESSAGE = args.message
  /\ (Done /\ exitCode = 0 /\ ~args.message.some)
       => OnlyMessageAt(TargetPlace, EditedByUser(orig.commits[Target].msg))

\* C9: the process exits 0, and reports success, if and only if the tree was
\* clean, the reference resolved and the amend or rewrite command exited 0;
\* otherwise it exits non-zero and success is never reported.
C9_ExitStatus ==
  /\ (SuccessReported => Done /\ exitCode = 0)
  /\ (Done
        => /\ exitCode \in {0, 1}
           /\ (exitCode = 0)
                <=> (WasClean /\ Target # "" /\ \E i \in Mutating : cmds[i].rc = 0)
           /\ (exitCode = 0 => SuccessReported))

C9_Witness ==
  /\ Done /\ exitCode = 1 /\ WasClean /\ Target # "" /\ ~SuccessReported
  /\ \E i \in Issued("rebase -i") : cmds[i].rc = 1
  /\ ~extFail

\* C10: the plan depends on the resolved target only: the direct amend if
\* and only if the target is the commit the tip resolves to, otherwise a
\* rewrite whose boundary is the target's parent, or --root when it has none;
\* one of the two commands is issued, and only one.
C10_PlanSelection ==
  (Done /\ WasClean /\ Target # "")
    => /\ Cardinality(Mutating) = 1
       /\ (Issued("commit --amend") # {}) <=> (Target = orig.head)
       /\ \A i \in Issued("rebase -i") :
            cmds[i].arg = IF orig.commits[Target].parent # ""
                          THEN orig.commits[Target].parent ELSE "--root"

C10_Witness ==
  /\ Done /\ WasClean /\ Target # "" /\ Target # orig.head
  /\ args.commit = Short(Target)
  /\ \E i \in Issued("rebase -i") : cmds[i].arg = orig.commits[Target].parent
  /\ orig.commits[Target].parent # ""

(***************************************************************************)
(* Properties of the session drivers on their own (SpecDriver)             *)
(***************************************************************************)

SequenceRan == pc = "done" /\ orig.mode = "hook_sequence"

MessageRan == pc = "done" /\ orig.mode = "hook_message"

\* The step-list driver found a target hash to look for.
TargetGiven == env.CMSG_TARGET_HASH.some /\ env.CMSG_TARGET_HASH.val # ""

\* An action line whose hash token resolves, and to the target.
ResolvesToTarget(line) ==
  /\ Len(line) >= 2
  /\ line[1] # "#"
  /\ RevParse(line[2]) # ""
  /\ env.CMSG_TARGET_HASH.some
  /\ RevParse(line[2]) = env.CMSG_TARGET_HASH.val

\* The places of the step list whose line the driver changed.
Changed == {i \in 1..Len(orig.todo) : i > Len(todo) \/ todo[i] # orig.todo[i]}

\* The places of the lines that name the target with the verb pick.
TargetPicks ==
  {i \in 1..Len(orig.todo) :
     ResolvesToTarget(orig.todo[i]) /\ orig.todo[i][1] = "pick"}

\* C11: the step-list driver, when it ends normally, has changed at most one
\* line: the first line that names the target with the verb pick, and that
\* one whenever there is such a line; a later line that names the target and
\* a line that names it with another verb are as they were.
C11_OnlyFirstMatchReworded ==
  (SequenceRan /\ exitCode = 0)
    => /\ Cardinality(Changed) <= 1
       /\ \A i \in Changed : i \in TargetPicks /\ \A j \in TargetPicks : i <= j
       /\ (TargetPicks # {} => Cardinality(Changed) = 1)

\* C12: the step-list driver leaves the file with the same number of lines
\* in the same order; a line is either exactly as it was, or it named the
\* target with the verb pick and differs in its verb token only, which is
\* now reword: hash and subject are as they were, also when the subject
\* contains the word pick.
C12_StepListFrame ==
  SequenceRan
    => /\ Len(todo) = Len(orig.todo)
       /\ \A i \in 1..Len(orig.todo) :
            \/ todo[i] = orig.todo[i]
            \/ /\ i \in TargetPicks
               /\ Len(todo[i]) = Len(orig.todo[i])
               /\ todo[i][1] = "reword"
               /\ Tail(todo[i]) = Tail(orig.todo[i])

C12_Witness ==
  /\ SequenceRan /\ exitCode = 0
  /\ \E i, j, k \in 1..Len(todo) :
       /\ orig.todo[i] = <<"pick", "b2e1", "pick", "me">>
       /\ todo[i] = <<"reword", "b2e1", "pick", "me">>
       /\ orig.todo[j] = <<>> /\ todo[j] = <<>>
       /\ orig.todo[k] # <<>> /\ orig.todo[k][1] = "#" /\ todo[k] = orig.todo[k]

\* C13: on a step list none of whose lines resolves to the target (lines
\* with an unknown or ambiguous hash, comments, blank lines and single-token
\* action lines among them) the step-list driver ends with status 0, leaves
\* the file as it was and prints that the commit was not found.
C13_MissIsHarmless ==
  (SequenceRan /\ TargetGiven
     /\ \A i \in 1..Len(orig.todo) : ~ResolvesToTarget(orig.todo[i]))
    => /\ exitCode = 0
       /\ todo = orig.todo
       /\ stdout = <<MsgNotFound>>

\* C15: a driver whose side channel is not set ends with a non-zero status
\* and its file as it was, having printed the environment error only; no
\* driver ends with a non-zero status for another reason; a message that is
\* set and empty is written and the driver ends with status 0.
C15_OnlyMissingChannelIsFatal ==
  /\ (SequenceRan /\ ~env.CMSG_TARGET_HASH.some)
       => exitCode = 1 /\ todo = orig.todo /\ stdout = <<MsgNoTargetEnv>>
  /\ (MessageRan /\ ~env.CMSG_NEW_MESSAGE.some)
       => exitCode = 1 /\ buffer = orig.buffer /\ stdout = <<MsgNoMessageEnv>>
  /\ (SequenceRan /\ exitCode # 0) => ~env.CMSG_TARGET_HASH.some
  /\ (MessageRan /\ exitCode # 0) => ~env.CMSG_NEW_MESSAGE.some
  /\ (MessageRan /\ env.CMSG_NEW_MESSAGE = Some(<<>>))
       => exitCode = 0 /\ buffer = <<>>

(***************************************************************************)
(* Properties of main() and the session it starts, continued               *)
(***************************************************************************)

\* A line of the session's step list that names commit h.
Lists(line, h) ==
  Len(line) >= 2 /\ line[1] # "#" /\ RevParse(line[2]) = h

\* C14: whenever main() has started a rewrite session for a resolved target
\* that is not the tip, the step list the tool built for the range has an
\* action line that resolves to the target, and the step-list driver never
\* reports that the commit was not found.
C14_TargetAlwaysListed ==
  /\ pc = "sequence_editor"
       => \E i \in 1..Len(todo) : Lists(todo[i], target_full_hash)
  /\ ~Printed(<<"Commit", "not", "found", "in", "todo", "list">>)

\* The commands main() issues through run_command (the amend without -m
\* and the rewrite go to subprocess.run directly).
ViaRunCommand(c) ==
  \/ c.name \in {"status", "rev-parse"}
  \/ c.name = "commit --amend" /\ c.msg.some

\* The parent probe: the one call of run_command with check=False.
ParentProbe(c) == c.name = "rev-parse" /\ c.arg = "^"

\* The number of times the message driver has written the buffer.
Wrote == Cardinality({i \in 1..Len(stdout) : stdout[i] = MsgWrote})

\* C16: when the rewrite command exits non-zero, main() prints the error and
\* exits 1 with the rewrite as its last command: no abort, retry or cleanup
\* follows, and the step that ends main() leaves the repository as the tool
\* left it (paused or aborted).
C16_NoAbortAfterFailure ==
  /\ []((Done /\ \E i \in Issued("rebase -i") : cmds[i].rc # 0)
          => /\ Issued("rebase -i") = {Len(cmds)}
             /\ exitCode = 1
             /\ Printed(<<"Error", "during", "rebase">>)
             /\ ~SuccessReported)
  /\ [][(pc = "rebase_exit" /\ sessRc # 0)
          => /\ pc' = "done"
             /\ UNCHANGED <<repo, orig>>]_vars

C16_Witness ==
  /\ Done /\ exitCode = 1 /\ rebasing
  /\ head # orig.head
  /\ cmds[Len(cmds)].name = "rebase -i" /\ cmds[Len(cmds)].rc = 1
  /\ Printed(<<"Error", "during", "rebase">>)

\* C17: the message driver never runs without a literal message and never
\* more than once; when the tool is about to commit the reworded step the
\* buffer is exactly M; and a rewrite with message M that exits 0 has run
\* the message driver once.
C17_MessageWriterOnce ==
  /\ (~args.message.some => Wrote = 0)
  /\ Wrote <= 1
  /\ (pc = "reword_commit" /\ args.message.some
        => Wrote = 1 /\ buffer = args.message.val)
  /\ (Done /\ args.message.some /\ \E i \in Issued("rebase -i") : cmds[i].rc = 0)
        => Wrote = 1

\* C18: a command run through run_command with check=True that exits
\* non-zero is the last thing main() does: the failure is printed and the
\* process exits 1 without success.  The only command whose non-zero exit
\* main() survives is the parent probe, and it is followed by a rewrite from
\* the root.
C18_MustSucceedOrExit ==
  \A i \in 1..Len(cmds) :
    /\ (ViaRunCommand(cmds[i]) /\ ~ParentProbe(cmds[i]) /\ cmds[i].rc > 0)
         => /\ i = Len(cmds)
            /\ Done /\ exitCode = 1
            /\ Printed(<<"Error", "running", "command", ":">>)
            /\ Printed(<<"Exiting", "with", "failure", ".">>)
            /\ ~SuccessReported
    /\ (cmds[i].rc > 0 /\ (i < Len(cmds) \/ ~Done))
         => /\ ParentProbe(cmds[i])
            /\ pc # "done" \/ i < Len(cmds)
            /\ i < Len(cmds) => cmds[i + 1].name = "rebase -i"
                                 /\ cmds[i + 1].arg = "--root"

C18_Witness ==
  /\ Done /\ exitCode = 1 /\ WasClean
  /\ cmds[Len(cmds)].name = "commit --amend"
  /\ cmds[Len(cmds)].msg.some /\ cmds[Len(cmds)].msg.val # <<>>
  /\ cmds[Len(cmds)].rc = 1
  /\ \E i \in 1..Len(stdout) : stdout[i] = MsgExiting

\* C20: main() issues at most one mutating command, an amend or a rewrite,
\* and it is its last command: before it come the status query on a clean
\* tree, the resolution of the reference and the resolution of HEAD, in
\* that order and all successful (and the parent probe before a rewrite);
\* every other command is a read-only query, and without a mutating command
\* the repository is as it was.
C20_OneMutatingCommandLast ==
  /\ Cardinality(Mutating) <= 1
  /\ \A i \in 1..Len(cmds) :
       cmds[i].name \in {"status", "rev-parse", "commit --amend", "rebase -i"}
  /\ \A i \in Mutating :
       /\ i = Len(cmds)
       /\ WasClean
       /\ i >= 4
       /\ cmds[1].name = "status"
       /\ cmds[2].name = "rev-parse" /\ cmds[2].arg = TargetCommit(args.commit)
       /\ cmds[2].rc = 0
       /\ cmds[3].name = "rev-parse" /\ cmds[3].arg = "HEAD" /\ cmds[3].rc = 0
       /\ IF cmds[i].name = "commit --amend" THEN i = 4
          ELSE i = 5 /\ ParentProbe(cmds[4])
  /\ (Mutating = {} => RepoUntouched)

C20_Witness ==
  /\ Done /\ exitCode = 0
  /\ Len(cmds) = 5 /\ Mutating = {5}
  /\ cmds[5].arg # "--root"
  /\ NowLog # OrigLog

(***************************************************************************)
(* Properties of main() beside another writer (SpecConc)                   *)
(***************************************************************************)

\* C19: the checks of main() are not atomic with its mutating command: once
\* the tip comparison is done the amend or the rewrite is issued whatever
\* another writer did to the tip or the tree in between; and an amend issued
\* after the tip moved rewrites the new tip, leaving the commit that was
\* resolved as the target as it was, under it.
C19_ChecksAreNotALock ==
  /\ (Done /\ Len(cmds) >= 3) => Cardinality(Mutating) = 1
  /\ (Done /\ other.tree # "" /\ Mutating # {}) => tree # <<>>
  /\ \A i \in Issued("commit --amend") :
       (other.tip = "amend" /\ cmds[i].rc = 0)
         => /\ commits[head].content = OtherContent
            /\ commits[head].parent = target_full_hash
            /\ commits[target_full_hash] = orig.commits[target_full_hash]
            /\ args.message.some
                 => commits[head].msg = Cleanup(args.message.val, FALSE)

C19_Witness ==
  /\ Done /\ exitCode = 0
  /\ other.tip = "amend"
  /\ args.message.some
  /\ Issued("commit --amend") = {4}
  /\ commits[head].content = OtherContent
  /\ commits[head].msg = args.message.val
  /\ commits[target_full_hash].msg = orig.commits[target_full_hash].msg

====
